---------------------------- MODULE Spec2Model ----------------------------
(***************************************************************************)
(* Scheduler core of SPOS (Praktikum Systemprogrammierung).                *)
(*                                                                         *)
(* The repository holds two revisions of os_scheduler.c:                   *)
(*   "SPOS" : src/src/SPOS/os_scheduler.c                                  *)
(*   "P1"   : src/unnamed/part_001                                         *)
(* Both are modelled; the variable rev says which one a behaviour runs.    *)
(* A statement about "the scheduler" is checked against both.              *)
(*                                                                         *)
(* os_scheduling_strategies.c, defines.h, os_process.h and the             *)
(* saveContext/restoreContext macros are not part of the sources at hand;  *)
(* what the model needs of them follows the written specification.         *)
(***************************************************************************)
EXTENDS Integers, Sequences, FiniteSets, TLC

(***************************************************************************)
(* Bounds of the model                                                     *)
(***************************************************************************)
\* number of process slots (the specification suggests 8, scenario S4 uses 3)
MAX_NUMBER_OF_PROCESSES == 3
\* nesting depth of critical sections explored in Spec
MaxNest == 1
\* stack bytes changed behind the scheduler's back in one behaviour
MaxCorrupt == 1
\* os_exec calls made by processes after boot in one behaviour
MaxExec == 1
\* the highest priority a process hands to os_exec
MaxPriority == 3
\* bytes the processes push on their stacks between ticks
MaxWork == 1

(***************************************************************************)
(* Program constants                                                       *)
(***************************************************************************)
\* registers pushed by saveContext: r0..r31 and SREG
CONTEXT_REGISTERS == 33
\* bytes walked by os_getStackChecksum: return address + registers
CONTEXT_BYTES == 35
\* "supports up to 255 nested critical sections"
MAX_NESTING == 255
INVALID_PROCESS == 255
DEFAULT_PRIORITY == 2
STACK_SIZE_PROC == 72
STACK_SIZE_ISR == 72
\* low memory (register file, I/O) below the stacks
LOW_MEMORY == 36

BOTTOM_OF_PROCS_STACK == LOW_MEMORY + MAX_NUMBER_OF_PROCESSES * STACK_SIZE_PROC
BOTTOM_OF_ISR_STACK == BOTTOM_OF_PROCS_STACK + STACK_SIZE_ISR
PROCESS_STACK_BOTTOM(pid) == BOTTOM_OF_PROCS_STACK - pid * STACK_SIZE_PROC

\* pointers are 16 bits wide
Address(a) == a % 65536
ProcessIDs == 0 .. (MAX_NUMBER_OF_PROCESSES - 1)

Revisions == {"SPOS", "P1"}
Strategies == {"OS_SS_EVEN", "OS_SS_RANDOM", "OS_SS_RUN_TO_COMPLETION",
               "OS_SS_ROUND_ROBIN", "OS_SS_INACTIVE_AGING"}
Priorities == {0, DEFAULT_PRIORITY, MaxPriority}
\* the autostart lists tried at boot (autostart_head)
AutostartLists == {<<"prog1">>, <<"prog1", "prog2">>}
\* content of SRAM never written by the kernel (uninitialised)
FillBytes == {0, 170}
\* the low byte of PC that os_exec of revision P1 stores
PCBytes == {90}

\* a zero-initialised element of os_processes
EmptySlot == [program |-> "NULL", priority |-> 0, state |-> "OS_PS_UNUSED",
              sp |-> 0, checksum |-> 0]

(***************************************************************************)
(* Bytes                                                                   *)
(***************************************************************************)
Bit(v, k) == (v \div (2 ^ k)) % 2

\* the xor of the bytes of a sequence: bit k of the result is the parity of
\* the bits k
XorAll(bytes) ==
    LET parity(k) == Cardinality({i \in DOMAIN bytes : Bit(bytes[i], k) = 1}) % 2
    IN  parity(0) + 2 * parity(1) + 4 * parity(2) + 8 * parity(3)
        + 16 * parity(4) + 32 * parity(5) + 64 * parity(6) + 128 * parity(7)

Xor8(a, b) == XorAll(<<a, b>>)

(***************************************************************************)
(* State                                                                   *)
(***************************************************************************)
VARIABLES
    rev,                    \* the revision of os_scheduler.c that runs
    fill,                   \* the byte found in memory the kernel never wrote
    autostart,              \* the autostart list (autostart_head)
    phase,                  \* "boot", "initialised", "running"
    node,                   \* os_initScheduler: position in idle :: autostart
    os_processes,           \* Process os_processes[MAX_NUMBER_OF_PROCESSES]
    currentProc,            \* ProcessID currentProc
    currentStrategy,        \* SchedulingStrategy currentStrategy
    criticalSectionCount,   \* nesting depth of critical sections
    SREG_I,                 \* global interrupt enable bit (SREG bit 7)
    OCIE2A,                 \* TIMSK2.OCIE2A: scheduler timer interrupt enabled
    SP,                     \* the CPU's stack pointer
    cpu,                    \* return address and registers of the running code
    mem,                    \* SRAM
    time_slice,             \* Round Robin: ticks left for currentProc
    age,                    \* Inactive Aging: age of every slot
    os_error_raised,        \* os_error was called (the CPU halts)
    last,                   \* the operation that led to this state
    hist,                   \* the pids selected by the ticks since the last
                            \* os_exec / os_setSchedulingStrategy
    enters,                 \* os_enterCriticalSection calls since the counter was 0
    leaves,                 \* os_leaveCriticalSection calls that followed them
    corrupted,              \* pids whose stack was changed since the last tick
    nCorrupt,               \* stack bytes changed so far
    nExec,                  \* os_exec calls made by processes so far
    fresh,                  \* the strategy installed by the last
                            \* os_setSchedulingStrategy, run on its own from
                            \* cleared private state
    obs,                    \* what an observer of the ticks has counted
    nWork                   \* bytes pushed by processes so far

vars == <<rev, fill, autostart, phase, node, os_processes, currentProc,
          currentStrategy, criticalSectionCount, SREG_I, OCIE2A, SP, cpu, mem,
          time_slice, age, os_error_raised, last, hist, enters, leaves,
          corrupted, nCorrupt, nExec, fresh, obs, nWork>>

(***************************************************************************)
(* Memory and context switch primitives                                    *)
(***************************************************************************)
\* mem holds the bytes that differ from fill, the content of memory nobody
\* wrote; every other address reads as fill.
Peek(m, a) == IF Address(a) \in DOMAIN m THEN m[Address(a)] ELSE fill

\* memory m after the bytes f[a] were stored at the addresses a of DOMAIN f
Store(m, f) ==
    LET written == {Address(a) : a \in DOMAIN f}
        value(w) == f[CHOOSE a \in DOMAIN f : Address(a) = w]
        differ == {w \in written : value(w) # fill}
    IN  [w \in (DOMAIN m \ written) \cup differ |->
            IF w \in written THEN value(w) ELSE m[w]]

Poke(m, a, v) == Store(m, [x \in {a} |-> v])

\* The interrupt pushes the return address (low byte first), saveContext the
\* 33 registers: 35 bytes at s, s-1, ..., s-34 (the AVR stack grows downwards
\* and SP points at the next free byte). ctx is in push order.
saveContext(m, s, ctx) ==
    Store(m, [a \in (s - CONTEXT_BYTES + 1) .. s |-> ctx[s - a + 1]])

\* restoreContext pops the 33 registers, reti the return address: the bytes
\* at s+1 .. s+35, read back into push order.
restoreContext(m, s) ==
    [i \in 1 .. CONTEXT_BYTES |-> Peek(m, s + CONTEXT_BYTES + 1 - i)]

\* checksum ^= *p for p = a, a+1, ..., b-1, starting from checksum
XorRange(m, a, b, checksum) ==
    XorAll(<<checksum>> \o [i \in 1 .. (b - a) |-> Peek(m, a + i - 1)])

\* the stack pointer stored in slot pid; memory behind the table holds fill
SlotSp(procs, pid) == IF pid \in ProcessIDs THEN procs[pid].sp ELSE fill

\* revision SPOS: checksum = current_pointer - bottom_pointer (StackChecksum
\* is 8 bits wide)
os_getStackChecksum_SPOS(procs, m, pid) ==
    (SlotSp(procs, pid) - PROCESS_STACK_BOTTOM(pid)) % 256

\* revision P1: starts from the byte at sp - 35 and xors the bytes
\* sp - 35 .. sp - 1 onto it
os_getStackChecksum_P1(procs, m, pid) ==
    LET current_pointer == SlotSp(procs, pid)
        initial_pointer == current_pointer - CONTEXT_BYTES
    IN  XorRange(m, initial_pointer, current_pointer, Peek(m, initial_pointer))

os_getStackChecksum(r, procs, m, pid) ==
    IF r = "SPOS" THEN os_getStackChecksum_SPOS(procs, m, pid)
    ELSE os_getStackChecksum_P1(procs, m, pid)

(***************************************************************************)
(* Critical sections.  cs = [count, I, ocie]: criticalSectionCount, the    *)
(* global interrupt enable bit, TIMSK2.OCIE2A.                             *)
(***************************************************************************)
\* criticalSectionCount++: uint8_t in revision P1; uint32_t in revision SPOS,
\* which cannot wrap within the depths the model reaches
Increment(r, count) == IF r = "SPOS" THEN count + 1 ELSE (count + 1) % 256

\* global_interrupt_enable_bit = (SREG & (1 << 7)) >> SREG is 0 when the I bit
\* is clear; with the I bit set the shift count is at least 128 and the value
\* is undefined.  SREG &= 0b10000000 keeps bit 7 and clears the flags;
\* SREG |= global_interrupt_enable_bit can only set bits, and sets bit 7 only
\* if it was set.  Whatever the shift yields, the I bit is left as it is and
\* is never cleared.  The field rmwI is the I bit while the counter is
\* written.
os_enterCriticalSection(r, cs) ==
    [count |-> Increment(r, cs.count),
     I     |-> cs.I,
     ocie  |-> cs.ocie,      \* TODO in the code: OCIE2A is not cleared
     rmwI  |-> cs.I]

\* a leave that forgets criticalSectionCount--
os_leaveCriticalSection_noDecrement(r, cs) ==
    [count |-> IF cs.count <= 0 THEN 0 ELSE cs.count,
     I |-> cs.I, ocie |-> cs.ocie, rmwI |-> cs.I]

\* a leave without the test criticalSectionCount <= 0: the counter of 8 bits
\* wraps, the wider one goes below 0
os_leaveCriticalSection_noClamp(r, cs) ==
    [count |-> IF r = "SPOS" THEN cs.count - 1 ELSE (cs.count + 255) % 256,
     I |-> cs.I, ocie |-> cs.ocie, rmwI |-> cs.I]

os_leaveCriticalSection(r, cs) ==
    IF cs.count <= 0
    THEN [count |-> 0, I |-> cs.I, ocie |-> cs.ocie, rmwI |-> cs.I]
    ELSE [count |-> cs.count - 1,
          I     |-> cs.I,
          ocie  |-> cs.ocie,  \* TODO in the code: OCIE2A is not set
          rmwI  |-> cs.I]

(***************************************************************************)
(* Scheduling strategies (os_scheduling_strategies.c is not among the      *)
(* sources; the selection rules are those of the specification, 4.E, and   *)
(* of the notes on the strategies).                                        *)
(***************************************************************************)
\* READY slots other than the idle slot
NonIdleReady(procs) ==
    {p \in ProcessIDs \ {0} : procs[p].state = "OS_PS_READY"}

\* "Selectable": READY and not idle; the idle slot when nothing else is
Selectable(procs) ==
    IF NonIdleReady(procs) # {} THEN NonIdleReady(procs) ELSE {0}

\* steps from current + 1 to p in cyclic ascending order
CyclicDistance(current, p) ==
    (p - current - 1 + 2 * MAX_NUMBER_OF_PROCESSES) % MAX_NUMBER_OF_PROCESSES

os_Scheduler_Even(procs, current) ==
    CHOOSE p \in Selectable(procs) :
        \A q \in Selectable(procs) :
            CyclicDistance(current, p) <= CyclicDistance(current, q)

\* every selectable slot is a possible outcome
os_Scheduler_Random(procs, current) == Selectable(procs)

os_Scheduler_RunToCompletion(procs, current) ==
    IF current \in Selectable(procs) THEN current
    ELSE os_Scheduler_Even(procs, current)

\* returns the next pid and the new time slice
os_Scheduler_RoundRobin(procs, current, ts) ==
    IF ts > 1 /\ current \in Selectable(procs)
    THEN [next |-> current, time_slice |-> ts - 1]
    ELSE LET n == os_Scheduler_Even(procs, current)
         IN  [next |-> n,
              time_slice |-> IF procs[n].priority = 0 THEN 1
                             ELSE procs[n].priority]

\* ages after step 1: every selectable slot grows older by its priority
Aged(procs, ages) ==
    [p \in ProcessIDs |->
        IF p \in Selectable(procs) THEN ages[p] + procs[p].priority
        ELSE ages[p]]

\* step 2: the oldest; among equals the highest priority; then the smallest pid
Oldest(procs, ages) ==
    CHOOSE p \in Selectable(procs) :
        \A q \in Selectable(procs) \ {p} :
            \/ ages[p] > ages[q]
            \/ /\ ages[p] = ages[q]
               /\ procs[p].priority > procs[q].priority
            \/ /\ ages[p] = ages[q]
               /\ procs[p].priority = procs[q].priority
               /\ p < q

\* returns the next pid and the new ages
os_Scheduler_InactiveAging(procs, current, ages) ==
    LET aged == Aged(procs, ages)
        n == Oldest(procs, aged)
    IN  [next |-> n, age |-> [aged EXCEPT ![n] = 0]]

\* os_resetSchedulingInformation: clears the private state of the strategy
\* that is installed
os_resetSchedulingInformation(strategy, st) ==
    CASE strategy = "OS_SS_ROUND_ROBIN" -> [st EXCEPT !.time_slice = 0]
      [] strategy = "OS_SS_INACTIVE_AGING" ->
            [st EXCEPT !.age = [p \in ProcessIDs |-> 0]]
      [] OTHER -> st

\* a factory that hands out Run To Completion for the tag OS_SS_EVEN
schedulingStrategyFnFactory_evenIsRTC(strategy) ==
    CASE strategy = "OS_SS_RANDOM" -> "os_Scheduler_Random"
      [] strategy = "OS_SS_ROUND_ROBIN" -> "os_Scheduler_RoundRobin"
      [] strategy = "OS_SS_INACTIVE_AGING" -> "os_Scheduler_InactiveAging"
      [] OTHER -> "os_Scheduler_RunToCompletion"

\* a factory that hands out Run To Completion for the tag
\* OS_SS_INACTIVE_AGING
schedulingStrategyFnFactory_iaIsRTC(strategy) ==
    CASE strategy = "OS_SS_RANDOM" -> "os_Scheduler_Random"
      [] strategy = "OS_SS_RUN_TO_COMPLETION" -> "os_Scheduler_RunToCompletion"
      [] strategy = "OS_SS_ROUND_ROBIN" -> "os_Scheduler_RoundRobin"
      [] strategy = "OS_SS_INACTIVE_AGING" -> "os_Scheduler_RunToCompletion"
      [] OTHER -> "os_Scheduler_Even"

\* a factory that hands out Even for the tag OS_SS_INACTIVE_AGING
schedulingStrategyFnFactory_iaIsEven(strategy) ==
    CASE strategy = "OS_SS_RANDOM" -> "os_Scheduler_Random"
      [] strategy = "OS_SS_RUN_TO_COMPLETION" -> "os_Scheduler_RunToCompletion"
      [] strategy = "OS_SS_ROUND_ROBIN" -> "os_Scheduler_RoundRobin"
      [] OTHER -> "os_Scheduler_Even"

\* a factory that hands out Even for the tag OS_SS_RUN_TO_COMPLETION
schedulingStrategyFnFactory_rtcIsEven(strategy) ==
    CASE strategy = "OS_SS_RANDOM" -> "os_Scheduler_Random"
      [] strategy = "OS_SS_ROUND_ROBIN" -> "os_Scheduler_RoundRobin"
      [] strategy = "OS_SS_INACTIVE_AGING" -> "os_Scheduler_InactiveAging"
      [] OTHER -> "os_Scheduler_Even"

\* a factory that hands out Even for the tag OS_SS_ROUND_ROBIN
schedulingStrategyFnFactory_rrIsEven(strategy) ==
    CASE strategy = "OS_SS_RANDOM" -> "os_Scheduler_Random"
      [] strategy = "OS_SS_RUN_TO_COMPLETION" -> "os_Scheduler_RunToCompletion"
      [] strategy = "OS_SS_INACTIVE_AGING" -> "os_Scheduler_InactiveAging"
      [] OTHER -> "os_Scheduler_Even"

\* _schedulingStrategyFnFactory: the tag's select function, Even by default
schedulingStrategyFnFactory(strategy) ==
    CASE strategy = "OS_SS_EVEN" -> "os_Scheduler_Even"
      [] strategy = "OS_SS_RANDOM" -> "os_Scheduler_Random"
      [] strategy = "OS_SS_RUN_TO_COMPLETION" -> "os_Scheduler_RunToCompletion"
      [] strategy = "OS_SS_ROUND_ROBIN" -> "os_Scheduler_RoundRobin"
      [] strategy = "OS_SS_INACTIVE_AGING" -> "os_Scheduler_InactiveAging"
      [] OTHER -> "os_Scheduler_Even"

\* st = [time_slice, age]: the strategies' private state.  The set of
\* [next, time_slice, age] a call of the select function fn can produce.
CallStrategy(fn, procs, current, st) ==
    CASE fn = "os_Scheduler_Even" ->
            {[next |-> os_Scheduler_Even(procs, current),
              time_slice |-> st.time_slice, age |-> st.age]}
      [] fn = "os_Scheduler_Random" ->
            {[next |-> n, time_slice |-> st.time_slice, age |-> st.age] :
                n \in os_Scheduler_Random(procs, current)}
      [] fn = "os_Scheduler_RunToCompletion" ->
            {[next |-> os_Scheduler_RunToCompletion(procs, current),
              time_slice |-> st.time_slice, age |-> st.age]}
      [] fn = "os_Scheduler_RoundRobin" ->
            LET r == os_Scheduler_RoundRobin(procs, current, st.time_slice)
            IN  {[next |-> r.next, time_slice |-> r.time_slice, age |-> st.age]}
      [] fn = "os_Scheduler_InactiveAging" ->
            LET r == os_Scheduler_InactiveAging(procs, current, st.age)
            IN  {[next |-> r.next, time_slice |-> st.time_slice, age |-> r.age]}

\* os_getSchedulingStrategy
os_getSchedulingStrategy(strategy) == strategy

\* os_getSchedulingStrategyFn
os_getSchedulingStrategyFn(strategy) ==
    schedulingStrategyFnFactory(os_getSchedulingStrategy(strategy))

(***************************************************************************)
(* os_exec.  Both revisions return [procs, mem, cs, ret].                  *)
(***************************************************************************)
\* os_getProcessSlot(pid)->state; memory behind the table holds fill, and a
\* zero byte reads as OS_PS_UNUSED
SlotState(procs, pid) ==
    IF pid \in ProcessIDs THEN procs[pid].state
    ELSE IF fill = 0 THEN "OS_PS_UNUSED" ELSE "OS_PS_OTHER"

\* The value of the pointer program: the entry address of the function, as
\* the two bytes a call pushes (low byte first).  No program lies at
\* address 0, the reset vector.
EntryAddress(program) ==
    IF program = "idle" THEN <<16, 1>>
    ELSE IF program = "prog1" THEN <<32, 2>>
    ELSE IF program = "prog2" THEN <<48, 3>>
    ELSE <<0, 0>>

\* an os_exec without the check of the program pointer
ProgramIsNull_unchecked(program) == FALSE

\* if (program == NULL) return INVALID_PROCESS;
ProgramIsNull(program) == program = "NULL"

RECURSIVE Scan_SPOS(_)
\* Revision SPOS, the do-while loop: element is the slot read last, index is
\* one past it.  The loop's condition never looks at the slot's state.
Scan_SPOS(index) ==
    LET element == index
    IN  IF index < MAX_NUMBER_OF_PROCESSES
        THEN IF index + 1 < MAX_NUMBER_OF_PROCESSES
             THEN Scan_SPOS(index + 1)
             ELSE [full |-> FALSE, element |-> element, index |-> index + 1]
        ELSE [full |-> TRUE, element |-> element, index |-> index]

os_exec_SPOS(procs, m, cs, program, priority) ==
    LET entered == os_enterCriticalSection("SPOS", cs)
        scan == Scan_SPOS(0)
        element == scan.element
        index == scan.index
        stored == [procs EXCEPT
                     ![element].program = program,
                     ![element].priority = priority,
                     ![element].state = "OS_PS_READY",
                     ![element].sp = PROCESS_STACK_BOTTOM(index)]
        summed == [stored EXCEPT
                     ![element].checksum =
                         os_getStackChecksum_SPOS(stored, m, index)]
    IN  IF scan.full \/ ProgramIsNull(program)
        THEN [procs |-> procs, mem |-> m, cs |-> entered,
              ret |-> INVALID_PROCESS]
        ELSE [procs |-> summed, mem |-> m,
              cs |-> os_leaveCriticalSection("SPOS", entered),
              ret |-> index % 256]

RECURSIVE Scan_P1(_, _)
\* Revision P1, the while loop, from the value free_process_slot happens to
\* hold: the free slot found, or INVALID_PROCESS
Scan_P1(procs, free_process_slot) ==
    IF SlotState(procs, free_process_slot) # "OS_PS_UNUSED"
    THEN IF (free_process_slot + 1) % 256 >= MAX_NUMBER_OF_PROCESSES
         THEN INVALID_PROCESS
         ELSE Scan_P1(procs, (free_process_slot + 1) % 256)
    ELSE free_process_slot

\* the frame os_exec of revision P1 writes: upwards from PROCESS_STACK_BOTTOM
SeedStack_P1(m, bottom, pcLow) ==
    Store(m, [a \in bottom .. (bottom + 1 + CONTEXT_REGISTERS) |->
                IF a = bottom THEN pcLow                       \* (uint8_t)PC
                ELSE IF a = bottom + 1
                     THEN (pcLow % 256) \div 256          \* (uint8_t)PC >> 8
                ELSE 0])

\* start is the uninitialised value of free_process_slot, pcLow the low byte
\* of PC.  A slot behind the table is not part of the model: what is written
\* to its fields is lost, its stack is seeded like any other.
os_exec_P1(procs, m, cs, program, priority, start, pcLow) ==
    LET entered == os_enterCriticalSection("P1", cs)
        free_process_slot == Scan_P1(procs, start)
        bottom == PROCESS_STACK_BOTTOM(free_process_slot)
        seeded == SeedStack_P1(m, bottom, pcLow)
        stack_pointer == bottom + 2 + CONTEXT_REGISTERS
        stored == IF free_process_slot \in ProcessIDs
                  THEN [procs EXCEPT
                          ![free_process_slot].program = program,
                          ![free_process_slot].priority = priority,
                          ![free_process_slot].state = "OS_PS_READY",
                          ![free_process_slot].sp = stack_pointer]
                  ELSE procs
        summed == IF free_process_slot \in ProcessIDs
                  THEN [stored EXCEPT
                          ![free_process_slot].checksum =
                              os_getStackChecksum_P1(stored, seeded,
                                                     free_process_slot)]
                  ELSE procs
    IN  IF free_process_slot = INVALID_PROCESS \/ ProgramIsNull(program)
        THEN [procs |-> procs, mem |-> m, cs |-> entered,
              ret |-> INVALID_PROCESS]
        ELSE [procs |-> summed, mem |-> seeded,
              cs |-> os_leaveCriticalSection("P1", entered),
              ret |-> free_process_slot]

\* the values the uninitialised free_process_slot is tried with; the value
\* MAX_NUMBER_OF_PROCESSES stands for every index behind the table
StartValues == 0 .. MAX_NUMBER_OF_PROCESSES

\* every result os_exec can have in the current state
os_exec(r, procs, m, cs, program, priority) ==
    IF r = "SPOS"
    THEN {os_exec_SPOS(procs, m, cs, program, priority)}
    ELSE {os_exec_P1(procs, m, cs, program, priority, start, pcLow) :
            start \in StartValues, pcLow \in PCBytes}

(***************************************************************************)
(* The state machine                                                       *)
(***************************************************************************)
CS == [count |-> criticalSectionCount, I |-> SREG_I, ocie |-> OCIE2A]

\* what is remembered of the operation that led to a state
NoOp == [op |-> "none", program |-> "NULL", priority |-> 0, ret |-> 0,
         strategy |-> "none", rmwI |-> 0, ready |-> {},
         dirty |-> {}, before |-> 0]

\* the pids selected by the last ticks; at most one per slot is kept
HistLen == MAX_NUMBER_OF_PROCESSES
Remember(h, pid) ==
    LET all == Append(h, pid)
    IN  IF Len(all) > HistLen THEN Tail(all) ELSE all

\* An observer of the ticks, switched on in the specifications that need it:
\*   run     the number of consecutive ticks that selected currentProc
\*   whole   the run was seen from its first tick
\*   ended   the length of the whole run the last tick ended (0: none), the
\*           run of the process last.before
\*   afterSet  no tick since os_setSchedulingStrategy
\*   wait    per slot, the ticks since it was selected while it was READY
\*   stored, recomputed  the checksum found in the slot of the process the
\*           last tick resumed, and the checksum of its stack at that moment
\*   out     the slots that have been switched out
\*   written the slots whose stack was written since they were switched out
\*   clean   the last tick resumed a slot of out that is not in written
RunCap == MaxPriority + 2
WaitCap == MAX_NUMBER_OF_PROCESSES * (MaxPriority + 1)
NoObs == [on |-> FALSE, run |-> 0, whole |-> FALSE, ended |-> 0,
          afterSet |-> FALSE, wait |-> [p \in ProcessIDs |-> 0],
          stored |-> 0, recomputed |-> 0,
          out |-> {}, written |-> {}, clean |-> FALSE]

Capped(n, cap) == IF n > cap THEN cap ELSE n

\* the observer after a tick with outcome o that interrupted current
Observe(ob, current, strategy, o) ==
    LET continuing == ob.run > 0 /\ o.currentProc = current
    IN  [on |-> TRUE,
         run |-> IF continuing THEN Capped(ob.run + 1, RunCap) ELSE 1,
         whole |-> IF continuing THEN ob.whole
                   ELSE (o.currentProc # current \/ ob.afterSet),
         ended |-> IF ob.run > 0 /\ o.currentProc # current /\ ob.whole
                   THEN ob.run ELSE 0,
         afterSet |-> FALSE,
         wait |-> [p \in ProcessIDs |->
                     IF strategy = "OS_SS_INACTIVE_AGING"
                        /\ p # o.currentProc /\ p \in o.ready \ {0}
                     THEN Capped(ob.wait[p] + 1, WaitCap) ELSE 0],
         stored |-> o.stored,
         recomputed |-> o.recomputed,
         out |-> ob.out \cup {current},
         written |-> ob.written \ {current},
         clean |-> /\ o.currentProc \in ob.out \cup {current}
                   /\ o.currentProc \notin ob.written \ {current}]

\* before the first os_setSchedulingStrategy: nothing to compare with
NoFresh == [strategy |-> "none", time_slice |-> 0,
            age |-> [p \in ProcessIDs |-> 0], stale |-> FALSE,
            explained |-> TRUE]

\* the statically initialised globals, before main calls os_initScheduler
Init ==
    /\ rev \in Revisions
    /\ fill \in FillBytes
    /\ autostart \in AutostartLists
    /\ phase = "boot"
    /\ node = 1
    /\ os_processes = [p \in ProcessIDs |-> EmptySlot]
    /\ currentProc = 0
    /\ currentStrategy = "OS_SS_EVEN"
    /\ criticalSectionCount = 0
    /\ SREG_I = 0
    /\ OCIE2A = 1
    /\ SP = BOTTOM_OF_ISR_STACK
    /\ cpu = [i \in 1 .. CONTEXT_BYTES |-> 0]
    /\ mem = << >>
    /\ time_slice = 0
    /\ age = [p \in ProcessIDs |-> 0]
    /\ os_error_raised = FALSE
    /\ last = NoOp
    /\ hist = << >>
    /\ enters = 0
    /\ leaves = 0
    /\ corrupted = {}
    /\ nCorrupt = 0
    /\ nExec = 0
    /\ fresh = NoFresh
    /\ obs = NoObs
    /\ nWork = 0

\* os_initScheduler, after pid = os_exec(...) had the result o:
\*   os_processes[pid].state = OS_PS_READY;
\* (a pid behind the table writes behind the table)
InitTurn(o) ==
    IF o.ret \in ProcessIDs
    THEN [o.procs EXCEPT ![o.ret].state = "OS_PS_READY"]
    ELSE o.procs

\* os_startScheduler on table procs and memory m: the new table, registers
\* and stack pointer
StartScheduler(procs, m) ==
    [procs |-> [procs EXCEPT ![0].state = "OS_PS_RUNNING"],
     cpu |-> restoreContext(m, procs[0].sp),
     SP |-> procs[0].sp + CONTEXT_BYTES]

\* One turn of the loop of os_initScheduler over idle :: autostart:
\*   pid = os_exec(node->program, DEFAULT_PRIORITY);
\*   os_processes[pid].state = OS_PS_READY;
os_initScheduler ==
    /\ phase = "boot"
    /\ LET list == <<"idle">> \o autostart
       IN  \E o \in os_exec(rev, os_processes, mem, CS, list[node],
                            DEFAULT_PRIORITY) :
             /\ os_processes' = InitTurn(o)
             /\ mem' = o.mem
             /\ criticalSectionCount' = o.cs.count
             /\ SREG_I' = o.cs.I
             /\ OCIE2A' = o.cs.ocie
             /\ node' = node + 1
             /\ phase' = IF node = Len(list) THEN "initialised" ELSE "boot"
             /\ last' = [NoOp EXCEPT !.op = "init", !.program = list[node],
                            !.priority = DEFAULT_PRIORITY, !.ret = o.ret]
    /\ UNCHANGED <<nWork, obs, fresh, rev, fill, autostart, currentProc, currentStrategy, SP, cpu,
                   time_slice, age, os_error_raised, hist, enters, leaves,
                   corrupted, nCorrupt, nExec>>

\* restoreContext ends in reti, which sets the I bit
os_startScheduler ==
    /\ phase = "initialised"
    /\ currentProc' = 0
    /\ os_processes' = StartScheduler(os_processes, mem).procs
    /\ cpu' = StartScheduler(os_processes, mem).cpu
    /\ SP' = StartScheduler(os_processes, mem).SP
    /\ SREG_I' = 1
    /\ phase' = "running"
    /\ last' = [NoOp EXCEPT !.op = "start"]
    /\ UNCHANGED <<nWork, obs, fresh, rev, fill, autostart, node, currentStrategy,
                   criticalSectionCount, OCIE2A, mem, time_slice, age,
                   os_error_raised, hist, enters, leaves, corrupted, nCorrupt,
                   nExec>>

(***************************************************************************)
(* ISR(TIMER2_COMPA_vect).  Both revisions return the set of               *)
(* [procs, mem, currentProc, SP, cpu, time_slice, age, ready, error].      *)
(* The interrupt has pushed the return address; saveContext pushes the     *)
(* registers.  The task manager opened on the button chord is an external  *)
(* collaborator that leaves the scheduler's state alone.  restoreContext   *)
(* ends in reti and the ISR is naked: nothing after restoreContext() is    *)
(* executed.  Revision SPOS writes the selection as                        *)
(* os_getSchedulingStrategy()(os_processes, currentProc); it is read as    *)
(* the call of the select function that belongs to the installed tag.      *)
(***************************************************************************)
ReadySlots(procs) == {p \in ProcessIDs : procs[p].state = "OS_PS_READY"}

\* an ISR that leaves the interrupted process RUNNING
Suspend_keepsRunning(procs, current, sp) == [procs EXCEPT ![current].sp = sp]

\* os_getProcessSlot(currentProc)->sp.as_int = SP;
\* os_getProcessSlot(currentProc)->state = OS_PS_READY;
Suspend(procs, current, sp) ==
    [procs EXCEPT ![current].sp = sp, ![current].state = "OS_PS_READY"]

\* os_getProcessSlot(currentProc)->state = OS_PS_RUNNING;
Resume(procs, next) == [procs EXCEPT ![next].state = "OS_PS_RUNNING"]

ISR_SPOS(procs, m, current, sp, ctx, strategy, st) ==
    LET saved == saveContext(m, sp, ctx)
        suspended == Suspend(procs, current, sp - CONTEXT_BYTES)
    IN  {LET next == o.next
             running == Resume(suspended, next)
             summed == [running EXCEPT ![next].checksum =
                            os_getStackChecksum_SPOS(running, saved, next)]
         IN  [procs |-> summed, mem |-> saved, currentProc |-> next,
              SP |-> suspended[next].sp + CONTEXT_BYTES,
              cpu |-> restoreContext(saved, suspended[next].sp),
              time_slice |-> o.time_slice, age |-> o.age,
              ready |-> ReadySlots(suspended),
              stored |-> suspended[next].checksum,
              recomputed |-> os_getStackChecksum_SPOS(running, saved, next),
              error |-> FALSE] :
         o \in CallStrategy(os_getSchedulingStrategyFn(strategy), suspended,
                            current, st)}

ISR_P1(procs, m, current, sp, ctx, strategy, st) ==
    LET saved == saveContext(m, sp, ctx)
        stored == Suspend(procs, current, sp - CONTEXT_BYTES)
        suspended == [stored EXCEPT ![current].checksum =
                          os_getStackChecksum_P1(stored, saved, current)]
    IN  {LET next == o.next
             running == Resume(suspended, next)
         IN  [procs |-> running, mem |-> saved, currentProc |-> next,
              SP |-> running[next].sp + CONTEXT_BYTES,
              cpu |-> restoreContext(saved, running[next].sp),
              time_slice |-> o.time_slice, age |-> o.age,
              ready |-> ReadySlots(suspended),
              stored |-> suspended[next].checksum,
              recomputed |-> os_getStackChecksum_P1(running, saved, next),
              \* the comparison with os_getStackChecksum(currentProc) and
              \* os_error stand behind restoreContext()
              error |-> FALSE] :
         o \in CallStrategy(os_getSchedulingStrategyFn(strategy), suspended,
                            current, st)}

ISR(r, procs, m, current, sp, ctx, strategy, st) ==
    IF r = "SPOS" THEN ISR_SPOS(procs, m, current, sp, ctx, strategy, st)
    ELSE ISR_P1(procs, m, current, sp, ctx, strategy, st)

\* the hardware takes the timer interrupt when the I bit and OCIE2A are set
TickEnabled(I, ocie) == I = 1 /\ ocie = 1

\* The installed strategy run next to the kernel on its own private state:
\* was the kernel's selection one this run can make?
FreshTick(f, procs, current, next) ==
    IF f.strategy = "none" THEN f
    ELSE LET outcomes == {o \in CallStrategy(
                                   schedulingStrategyFnFactory(f.strategy),
                                   procs, current, f) : o.next = next}
         IN  IF outcomes = {} THEN [f EXCEPT !.explained = FALSE]
             ELSE LET o == CHOOSE x \in outcomes : TRUE
                  IN  [f EXCEPT !.time_slice = o.time_slice, !.age = o.age]

Tick ==
    /\ phase = "running"
    /\ ~os_error_raised
    /\ TickEnabled(SREG_I, OCIE2A)
    /\ \E o \in ISR(rev, os_processes, mem, currentProc, SP, cpu,
                 currentStrategy, [time_slice |-> time_slice, age |-> age]) :
          /\ os_processes' = o.procs
          /\ mem' = o.mem
          /\ currentProc' = o.currentProc
          /\ SP' = o.SP
          /\ cpu' = o.cpu
          /\ time_slice' = o.time_slice
          /\ age' = o.age
          /\ os_error_raised' = o.error
          /\ hist' = Remember(hist, o.currentProc)
          /\ last' = [NoOp EXCEPT !.op = "tick",
                         !.ready = o.ready, !.dirty = corrupted,
                         !.before = currentProc]
          /\ obs' = IF obs.on
                    THEN Observe(obs, currentProc, currentStrategy, o)
                    ELSE obs
    /\ corrupted' = {}
    /\ fresh' = FreshTick(fresh, Suspend(os_processes, currentProc,
                                         SP - CONTEXT_BYTES),
                          currentProc, currentProc')
    /\ UNCHANGED <<nWork, rev, fill, autostart, phase, node, currentStrategy,
                   criticalSectionCount, SREG_I, OCIE2A, enters, leaves,
                   nCorrupt, nExec>>

(***************************************************************************)
(* Calls made by the running process                                       *)
(***************************************************************************)
\* programs a process hands to os_exec
ExecPrograms == {"NULL", "prog1"}

Exec ==
    /\ phase = "running"
    /\ ~os_error_raised
    /\ nExec < MaxExec
    /\ \E program \in ExecPrograms, priority \in Priorities :
       \E o \in os_exec(rev, os_processes, mem, CS, program, priority) :
          /\ os_processes' = o.procs
          /\ mem' = o.mem
          /\ criticalSectionCount' = o.cs.count
          /\ SREG_I' = o.cs.I
          /\ OCIE2A' = o.cs.ocie
          /\ last' = [NoOp EXCEPT !.op = "exec", !.program = program,
                         !.priority = priority, !.ret = o.ret,
                         !.before = criticalSectionCount]
    /\ nExec' = nExec + 1
    /\ obs' = [NoObs EXCEPT !.on = obs.on]
    /\ hist' = << >>
    /\ enters' = 0
    /\ leaves' = 0
    /\ UNCHANGED <<nWork, fresh, rev, fill, autostart, phase, node, currentProc,
                   currentStrategy, SP, cpu, time_slice, age, os_error_raised,
                   corrupted, nCorrupt>>

\* a set that does not call os_resetSchedulingInformation
os_setSchedulingStrategy_noReset(strategy, st) ==
    [currentStrategy |-> strategy, st |-> st]

\* os_setSchedulingStrategy(strategy)
os_setSchedulingStrategy(strategy, st) ==
    [currentStrategy |-> strategy,
     st |-> os_resetSchedulingInformation(strategy, st)]

\* the private state of the strategy holds something when it is installed
Stale(strategy, ts, ages) ==
    \/ strategy = "OS_SS_ROUND_ROBIN" /\ ts > 1
    \/ strategy = "OS_SS_INACTIVE_AGING" /\ \E p \in ProcessIDs : ages[p] > 0

SetStrategy ==
    /\ phase = "running"
    /\ ~os_error_raised
    /\ \E strategy \in Strategies :
          LET o == os_setSchedulingStrategy(strategy,
                       [time_slice |-> time_slice, age |-> age])
          IN  /\ currentStrategy' = o.currentStrategy
              /\ time_slice' = o.st.time_slice
              /\ age' = o.st.age
              /\ last' = [NoOp EXCEPT !.op = "setStrategy",
                             !.strategy = strategy]
              /\ fresh' = [NoFresh EXCEPT !.strategy = strategy,
                              !.stale = Stale(strategy, time_slice, age)]
    /\ hist' = << >>
    /\ obs' = [NoObs EXCEPT !.on = obs.on, !.afterSet = obs.on]
    /\ UNCHANGED <<nWork, rev, fill, autostart, phase, node, os_processes,
                   currentProc, criticalSectionCount, SREG_I, OCIE2A, SP, cpu,
                   mem, os_error_raised, enters, leaves, corrupted, nCorrupt,
                   nExec>>

\* os_enterCriticalSection(), called at most up to depth limit
Enter(limit) ==
    /\ phase = "running"
    /\ ~os_error_raised
    /\ criticalSectionCount < limit
    /\ LET o == os_enterCriticalSection(rev, CS)
       IN  /\ criticalSectionCount' = o.count
           /\ SREG_I' = o.I
           /\ OCIE2A' = o.ocie
           /\ last' = [NoOp EXCEPT !.op = "enter", !.rmwI = o.rmwI,
                          !.before = criticalSectionCount]
    /\ enters' = IF criticalSectionCount = 0 THEN 1
                 ELSE IF enters > 0 /\ leaves = 0 THEN enters + 1
                 ELSE 0
    /\ leaves' = 0
    /\ UNCHANGED <<nWork, obs, fresh, rev, fill, autostart, phase, node, os_processes,
                   currentProc, currentStrategy, SP, cpu, mem, time_slice, age,
                   os_error_raised, hist, corrupted, nCorrupt, nExec>>

\* os_leaveCriticalSection()
Leave ==
    /\ phase = "running"
    /\ ~os_error_raised
    /\ LET o == os_leaveCriticalSection(rev, CS)
       IN  /\ criticalSectionCount' = o.count
           /\ SREG_I' = o.I
           /\ OCIE2A' = o.ocie
           /\ last' = [NoOp EXCEPT !.op = "leave", !.rmwI = o.rmwI,
                          !.before = criticalSectionCount]
    /\ enters' = IF enters > 0 /\ leaves < enters THEN enters ELSE 0
    /\ leaves' = IF enters > 0 /\ leaves < enters THEN leaves + 1 ELSE 0
    /\ UNCHANGED <<nWork, obs, fresh, rev, fill, autostart, phase, node, os_processes,
                   currentProc, currentStrategy, SP, cpu, mem, time_slice, age,
                   os_error_raised, hist, corrupted, nCorrupt, nExec>>

\* The running process pushes a byte on its stack (it has called a function
\* or holds a local): SP-- after the store, as push does.
Work ==
    /\ phase = "running"
    /\ ~os_error_raised
    /\ nWork < MaxWork
    /\ mem' = Poke(mem, SP, 1)
    /\ SP' = SP - 1
    /\ nWork' = nWork + 1
    /\ last' = [NoOp EXCEPT !.op = "work", !.before = currentProc]
    /\ UNCHANGED <<obs, fresh, rev, fill, autostart, phase, node, os_processes,
                   currentProc, currentStrategy, criticalSectionCount, SREG_I,
                   OCIE2A, cpu, time_slice, age, os_error_raised, hist,
                   enters, leaves, corrupted, nCorrupt, nExec>>

(***************************************************************************)
(* The environment: a byte of a suspended process's stack changes (a stack *)
(* overflow of a neighbour, a stray pointer).                              *)
(***************************************************************************)
\* offsets from the saved stack pointer: the first and last byte the
\* checksum walks, the first and last byte restoreContext pops
CorruptOffsets == {0 - CONTEXT_BYTES, 0 - 1, 1, CONTEXT_BYTES}

Corrupt ==
    /\ phase = "running"
    /\ ~os_error_raised
    /\ nCorrupt < MaxCorrupt
    /\ \E pid \in ProcessIDs \ {currentProc}, off \in CorruptOffsets :
          LET a == os_processes[pid].sp + off
          IN  /\ os_processes[pid].state = "OS_PS_READY"
              /\ mem' = Poke(mem, a, Xor8(Peek(mem, a), 1))
              /\ corrupted' = corrupted \cup {pid}
              /\ obs' = IF obs.on
                        THEN [obs EXCEPT !.written = @ \cup {pid}]
                        ELSE obs
              /\ last' = [NoOp EXCEPT !.op = "corrupt", !.ret = pid,
                             !.before = off]
    /\ nCorrupt' = nCorrupt + 1
    /\ UNCHANGED <<nWork, fresh, rev, fill, autostart, phase, node, os_processes,
                   currentProc, currentStrategy, criticalSectionCount, SREG_I,
                   OCIE2A, SP, cpu, time_slice, age, os_error_raised, hist,
                   enters, leaves, nExec>>

(***************************************************************************)
(* Specifications.  Spec is the program: boot, the timer interrupt and the *)
(* calls a running process makes.  The others keep the boot and the        *)
(* interrupt and leave out the calls a statement is not about, so that the *)
(* calls it is about can be explored more deeply.                          *)
(***************************************************************************)
Next ==
    \/ os_initScheduler
    \/ os_startScheduler
    \/ Tick
    \/ Exec
    \/ SetStrategy
    \/ Enter(MaxNest)
    \/ Leave

Spec == Init /\ [][Next]_vars

\* process creation
NextExec ==
    \/ os_initScheduler
    \/ os_startScheduler
    \/ Tick
    \/ Exec

SpecExec == Init /\ [][NextExec]_vars

\* the strategies, over the tables the boot can leave
NextSched ==
    \/ os_initScheduler
    \/ os_startScheduler
    \/ Tick
    \/ SetStrategy

SpecSched == Init /\ [][NextSched]_vars

\* stack faults
NextFault ==
    \/ os_initScheduler
    \/ os_startScheduler
    \/ Tick
    \/ Corrupt

SpecFault == Init /\ [][NextFault]_vars

\* Critical sections nested up to the width of the 8 bit counter and one
\* call beyond it.  The behaviours start where os_startScheduler has just
\* handed over to idle, after a boot in memory that reads as zero, with
\* free_process_slot starting at 0 in revision P1: idle is in slot 0 and
\* prog1 in slot 1 (P1) or in the last slot (SPOS).
NestLimit == MAX_NESTING + 1

BootCS(r, procs, m, cs, program) ==
    IF r = "SPOS"
    THEN os_exec_SPOS(procs, m, cs, program, DEFAULT_PRIORITY)
    ELSE os_exec_P1(procs, m, cs, program, DEFAULT_PRIORITY, 0,
                    CHOOSE b \in PCBytes : TRUE)

InitBooted(o) ==
    /\ rev \in Revisions
    /\ fill = 0
    /\ autostart = <<"prog1">>
    /\ phase = "running"
    /\ node = 3
    /\ \E first \in {BootCS(rev, [p \in ProcessIDs |-> EmptySlot], << >>,
                            [count |-> 0, I |-> 0, ocie |-> 1], "idle")} :
       \E t1 \in {InitTurn(first)} :
       \E second \in {BootCS(rev, t1, first.mem, first.cs, "prog1")} :
       \E t2 \in {InitTurn(second)} :
       \E s \in {StartScheduler(t2, second.mem)} :
          /\ os_processes = s.procs
          /\ cpu = s.cpu
          /\ SP = s.SP
          /\ mem = second.mem
          /\ criticalSectionCount = second.cs.count
          /\ OCIE2A = second.cs.ocie
    /\ SREG_I = 1
    /\ currentProc = 0
    /\ currentStrategy = "OS_SS_EVEN"
    /\ time_slice = 0
    /\ age = [p \in ProcessIDs |-> 0]
    /\ os_error_raised = FALSE
    /\ last = [NoOp EXCEPT !.op = "start"]
    /\ hist = << >>
    /\ enters = 0
    /\ leaves = 0
    /\ corrupted = {}
    /\ nCorrupt = 0
    /\ nExec = 0
    /\ fresh = NoFresh
    /\ obs = o
    /\ nWork = 0

InitCS == InitBooted(NoObs)

\* the timer interrupt as SpecCS takes it: the first two interrupts after the
\* start, which find the counter at every depth
TickCS == Len(hist) < 2 /\ Tick

NextCS ==
    \/ TickCS
    \/ Enter(NestLimit)
    \/ Leave

SpecCS == InitCS /\ [][NextCS]_vars

\* The strategies over processes of different priorities, watched by the
\* observer: from the booted system, processes create further processes
\* and install strategies.
InitPrio == InitBooted([NoObs EXCEPT !.on = TRUE])

NextPrio ==
    \/ Tick
    \/ Exec
    \/ SetStrategy

SpecPrio == InitPrio /\ [][NextPrio]_vars

\* The checksums over processes that use their stacks and stacks that are
\* changed from outside, watched by the observer.
NextStack ==
    \/ Tick
    \/ Work
    \/ Corrupt

SpecStack == InitPrio /\ [][NextStack]_vars

(***************************************************************************)
(* Properties                                                              *)
(***************************************************************************)
UnusedSlots(procs) ==
    {p \in ProcessIDs : procs[p].state = "OS_PS_UNUSED"}

SmallestOf(S) == CHOOSE p \in S : \A q \in S : p <= q

\* C1: once the scheduler runs, exactly one slot is RUNNING, and it is the
\* slot of currentProc.
C1_ExactlyOneRunning ==
    phase = "running" =>
        \A p \in ProcessIDs :
            (os_processes[p].state = "OS_PS_RUNNING") <=> (p = currentProc)

\* C2: while criticalSectionCount is greater than 0 the scheduler's timer
\* interrupt is masked: no tick can be taken.
C2_MaskedInCriticalSection ==
    (phase = "running" /\ criticalSectionCount > 0)
        => ~TickEnabled(SREG_I, OCIE2A)

\* C3: from counter 0, N enters followed by N leaves, for N from 1 to
\* MAX_NESTING, bring the counter back to 0 with the timer interrupt enabled.
C3_EnterLeaveBalanced ==
    (1 <= enters /\ enters <= MAX_NESTING /\ leaves = enters)
        => /\ criticalSectionCount = 0
           /\ TickEnabled(SREG_I, OCIE2A)

\* the deepest nesting has just been left again
C3_Witness ==
    /\ enters = MAX_NESTING
    /\ leaves = MAX_NESTING
    /\ last.op = "leave"
    /\ last.before = 1
    /\ criticalSectionCount = 0

\* C4: a tick that resumes a process whose saved stack was changed since the
\* tick before raises os_error instead.
C4_CorruptionDetected ==
    (last.op = "tick" /\ currentProc \in last.dirty) => os_error_raised

\* C5: os_exec of a program while a slot is UNUSED returns the smallest
\* UNUSED index, leaves that slot READY with the program and the priority,
\* and leaves every other slot as it was.
C5_ExecTakesSmallestUnused ==
    [][(/\ last'.op = "exec"
        /\ last'.program # "NULL"
        /\ UnusedSlots(os_processes) # {})
          => LET slot == SmallestOf(UnusedSlots(os_processes))
             IN  /\ last'.ret = slot
                 /\ os_processes'[slot].state = "OS_PS_READY"
                 /\ os_processes'[slot].program = last'.program
                 /\ os_processes'[slot].priority = last'.priority
                 /\ \A p \in ProcessIDs \ {slot} :
                        os_processes'[p] = os_processes[p]]_vars

\* C6: os_exec on a table without UNUSED slot returns INVALID_PROCESS and
\* leaves the table as it was.
C6_FullTableRejected ==
    [][(last'.op = "exec" /\ UnusedSlots(os_processes) = {})
          => /\ last'.ret = INVALID_PROCESS
             /\ os_processes' = os_processes]_vars

\* C7: os_exec of the null program returns INVALID_PROCESS and changes no
\* field of any slot.
C7_NullProgramRejected ==
    [][(last'.op = "exec" /\ last'.program = "NULL")
          => /\ last'.ret = INVALID_PROCESS
             /\ os_processes' = os_processes]_vars

\* os_exec of the null program returned while a slot was free
C7_Witness ==
    /\ last.op = "exec"
    /\ last.program = "NULL"
    /\ last.ret = INVALID_PROCESS
    /\ UnusedSlots(os_processes) # {}

\* the non-idle slots that were READY when the last tick selected
SelectableAtTick == last.ready \ {0}

\* C8: the slot a tick selects is inside the table and READY when it is
\* selected, and it is the idle slot 0 exactly if no other slot is READY;
\* under whichever of the five strategies is installed.
C8_SelectedIsReady ==
    last.op = "tick" =>
        /\ currentProc \in ProcessIDs
        /\ currentProc \in last.ready
        /\ (currentProc = 0) <=> (SelectableAtTick = {})

\* a tick chose among several READY slots under a strategy with private state
C8_Witness ==
    /\ last.op = "tick"
    /\ currentStrategy = "OS_SS_INACTIVE_AGING"
    /\ Cardinality(SelectableAtTick) >= 2
    /\ currentProc # 0
    /\ last.before # 0

\* idle was chosen because nothing else was READY
C8_WitnessIdle ==
    /\ last.op = "tick"
    /\ SelectableAtTick = {}
    /\ currentProc = 0

\* C9: after os_setSchedulingStrategy(S), os_getSchedulingStrategy returns S
\* and every selection is one S makes when run on its own from cleared
\* private state.
C9_StrategyAlone ==
    fresh.strategy # "none" =>
        /\ os_getSchedulingStrategy(currentStrategy) = fresh.strategy
        /\ fresh.explained

\* Round Robin was installed while a time slice was running, and ticks
\* followed
C9_Witness ==
    /\ last.op = "tick"
    /\ fresh.strategy = "OS_SS_ROUND_ROBIN"
    /\ fresh.stale
    /\ Len(hist) >= 2
    /\ Cardinality(SelectableAtTick) >= 2

\* the member of S that follows p in ascending cyclic order
FollowerIn(S, p) ==
    CHOOSE q \in S :
        \A x \in S : CyclicDistance(p, q) <= CyclicDistance(p, x)

\* C10: under Even with K selectable slots, the last K ticks selected each
\* of them once, each the follower of the one before in ascending cyclic
\* order.
C10_EvenWindow ==
    LET K == Cardinality(SelectableAtTick)
        window == SubSeq(hist, Len(hist) - K + 1, Len(hist))
    IN  (/\ last.op = "tick"
         /\ currentStrategy = "OS_SS_EVEN"
         /\ K >= 1
         /\ Len(hist) >= K)
           => /\ {window[i] : i \in 1 .. K} = SelectableAtTick
              /\ \A i \in 1 .. (K - 1) :
                    window[i + 1] = FollowerIn(SelectableAtTick, window[i])

\* two selectable slots, and at least one full window after the first tick
C10_Witness ==
    /\ last.op = "tick"
    /\ currentStrategy = "OS_SS_EVEN"
    /\ Cardinality(SelectableAtTick) = 2
    /\ Len(hist) >= 3

\* the ticks Round Robin grants a slot per turn
Slice(p) ==
    IF os_processes[p].priority = 0 THEN 1 ELSE os_processes[p].priority

C11_WitnessZero ==
    /\ last.op = "tick"
    /\ currentStrategy = "OS_SS_ROUND_ROBIN"
    /\ Cardinality(SelectableAtTick) >= 2
    /\ os_processes[last.before].priority = 0
    /\ obs.ended = 1

SelectableOf(ready) == IF ready \ {0} # {} THEN ready \ {0} ELSE {0}

\* C12: an Inactive Aging tick first adds its priority to the age of every
\* selectable slot, then selects the oldest, among equals the one with the
\* highest priority, among those the smallest pid; the selected slot's age
\* becomes 0 and every other slot keeps its increased age.
C12_OldestSelected ==
    [][(last'.op = "tick" /\ currentStrategy = "OS_SS_INACTIVE_AGING")
          => LET S == SelectableOf(last'.ready)
                 prio(p) == os_processes[p].priority
                 grown == [p \in ProcessIDs |->
                             IF p \in S THEN age[p] + prio(p) ELSE age[p]]
                 oldest == {p \in S : \A q \in S : grown[p] >= grown[q]}
                 best == {p \in oldest : \A q \in oldest : prio(p) >= prio(q)}
             IN  /\ currentProc' \in best
                 /\ \A q \in best : currentProc' <= q
                 /\ age'[currentProc'] = 0
                 /\ \A p \in ProcessIDs \ {currentProc'} :
                        age'[p] = grown[p]]_vars

\* an Inactive Aging tick chose between two slots of the same priority,
\* took the one with the smaller pid and left the other one waiting with its
\* increased age
C12_Witness ==
    /\ last.op = "tick"
    /\ currentStrategy = "OS_SS_INACTIVE_AGING"
    /\ currentProc # 0
    /\ age[currentProc] = 0
    /\ \E q \in SelectableAtTick :
          /\ q > currentProc
          /\ q # last.before
          /\ os_processes[q].priority = os_processes[currentProc].priority
          /\ age[q] = os_processes[q].priority
          /\ age[q] > 0

\* C14: a Run-To-Completion tick selects the interrupted process again if it
\* is selectable; only if it is not, the follower in Even order.
C14_RunToCompletion ==
    (last.op = "tick" /\ currentStrategy = "OS_SS_RUN_TO_COMPLETION")
       => IF last.before \in SelectableOf(last.ready)
          THEN currentProc = last.before
          ELSE currentProc = FollowerIn(SelectableOf(last.ready), last.before)

\* a non-idle process was kept over several ticks although another was READY
C14_Witness ==
    /\ last.op = "tick"
    /\ currentStrategy = "OS_SS_RUN_TO_COMPLETION"
    /\ Cardinality(SelectableAtTick) >= 2
    /\ currentProc # 0
    /\ obs.run >= 3

\* idle was interrupted while a non-idle slot was READY
C14_WitnessIdle ==
    /\ last.op = "tick"
    /\ currentStrategy = "OS_SS_RUN_TO_COMPLETION"
    /\ last.before = 0
    /\ currentProc # 0

\* the highest priority among the slots of S
HighestPriority(S) ==
    LET p == CHOOSE x \in S :
                 \A q \in S : os_processes[x].priority >= os_processes[q].priority
    IN  os_processes[p].priority

C15_AutostartInOrder ==
    (phase \in {"initialised", "running"} /\ nExec = 0)
       => /\ os_processes[0].program = "idle"
          /\ \A k \in 1..Len(autostart) :
                /\ k \in ProcessIDs
                /\ os_processes[k].program = autostart[k]
                /\ os_processes[k].priority = DEFAULT_PRIORITY
                /\ os_processes[k].state \in {"OS_PS_READY", "OS_PS_RUNNING"}

\* the loop of os_initScheduler has run over idle and every autostart entry
C15_Reached ==
    /\ phase = "initialised"
    /\ last.op = "init"
    /\ last.program = autostart[Len(autostart)]

\* C16: when a tick switches in a process that was switched out before and
\* whose stack nobody wrote since, the checksum stored in its slot equals
\* the checksum computed at the switch-in, and no error is raised.
C16_NoFalseAlarm ==
    (last.op = "tick" /\ obs.clean)
       => obs.stored = obs.recomputed /\ ~os_error_raised

\* a process that had pushed on its stack before it was switched out is
\* switched in again
C16_Reached ==
    /\ last.op = "tick"
    /\ obs.clean
    /\ nWork > 0
    /\ currentProc # 0

\* C17: os_leaveCriticalSection called with the counter at 0 leaves the
\* counter at 0 and leaves OCIE2A and the I bit as they are.
C17_LeaveAtZero ==
    [][(last'.op = "leave" /\ criticalSectionCount = 0)
          => /\ criticalSectionCount' = 0
             /\ SREG_I' = SREG_I
             /\ OCIE2A' = OCIE2A]_vars

\* a leave was called outside every critical section
C17_Witness ==
    /\ last.op = "leave"
    /\ last.before = 0
    /\ criticalSectionCount = 0
    /\ TickEnabled(SREG_I, OCIE2A)

\* C18: every call of os_exec, whether it returns a slot or INVALID_PROCESS,
\* leaves criticalSectionCount at the value it had before the call.
C18_ExecBalanced ==
    last.op = "exec" => criticalSectionCount = last.before

\* os_exec returned INVALID_PROCESS
C18_Reached ==
    last.op = "exec" /\ last.ret = INVALID_PROCESS

\* C19: whenever os_enterCriticalSection or os_leaveCriticalSection reads,
\* changes and writes criticalSectionCount, the I bit is clear.
C19_AtomicUpdate ==
    (last.op = "enter" \/ (last.op = "leave" /\ last.before > 0))
       => last.rmwI = 0

\* C20: criticalSectionCount stays within 0..255, and while at most 255
\* critical sections are nested it is the number of enters without a leave.
C20_CounterInRange ==
    /\ criticalSectionCount \in 0..255
    /\ (1 <= enters /\ enters <= MAX_NESTING /\ leaves <= enters)
          => criticalSectionCount = enters - leaves

\* one enter more than the counter of 8 bits can hold
C20_Reached ==
    last.op = "enter" /\ last.before = MAX_NESTING

\* what the first restoreContext of a new process has to find, in push
\* order: the entry address of the program and a zero for each of the 33
\* registers
SeededContext(program) ==
    EntryAddress(program) \o [i \in 1 .. CONTEXT_REGISTERS |-> 0]

\* the slots a step has written as the new process of program: the slot
\* os_exec returned, and any slot that changed and now holds program
NewSlots(before, after, program, ret) ==
    {p \in ProcessIDs :
        /\ after[p].program = program
        /\ after[p].state = "OS_PS_READY"
        /\ (p = ret \/ after[p] # before[p])}

\* C21: after an os_exec that did not return INVALID_PROCESS, restoreContext
\* from the stack pointer stored in the new slot pops 33 zero bytes and then
\* the two bytes of the entry address of the program: the frame is seeded
\* and the stored stack pointer is its top.
C21_SeededFrame ==
    [][(last'.op \in {"exec", "init"} /\ last'.ret # INVALID_PROCESS)
          => \A p \in NewSlots(os_processes, os_processes', last'.program,
                               last'.ret) :
                restoreContext(mem', os_processes'[p].sp)
                   = SeededContext(last'.program)]_vars

\* os_exec has created a process in a slot of the table
C21_Reached ==
    /\ last.op = "exec"
    /\ last.ret # INVALID_PROCESS
    /\ \E p \in ProcessIDs :
          /\ os_processes[p].program = last.program
          /\ os_processes[p].priority = last.priority
          /\ os_processes[p].state = "OS_PS_READY"

\* the xor of the bytes between the base of the stack of pid and its stored
\* stack pointer, for each way of counting the two ends in or out
StackXors(procs, m, pid) ==
    LET sp == SlotSp(procs, pid)
        bottom == PROCESS_STACK_BOTTOM(pid)
        lo == IF sp < bottom THEN sp ELSE bottom
        hi == IF sp < bottom THEN bottom ELSE sp
    IN  {XorRange(m, a, b, 0) : a \in {lo, lo + 1}, b \in {hi, hi + 1}}

\* C22: for every process of the table, os_getStackChecksum is the xor of
\* the bytes between PROCESS_STACK_BOTTOM(pid) and the stored stack pointer,
\* at every depth of the stack.
C22_ChecksumIsXor ==
    phase = "running"
       => \A pid \in ProcessIDs :
             os_processes[pid].program # "NULL"
                => os_getStackChecksum(rev, os_processes, mem, pid)
                      \in StackXors(os_processes, mem, pid)

\* a process was switched out with a byte of its own on its stack
C22_Reached ==
    /\ last.op = "tick"
    /\ nWork > 0
    /\ \E pid \in ProcessIDs :
          /\ os_processes[pid].state = "OS_PS_READY"
          /\ os_processes[pid].sp < PROCESS_STACK_BOTTOM(pid) - CONTEXT_BYTES

=============================================================================
